---- MODULE Spec2Model ----
(***************************************************************************)
(* Model of the questionnaire scoring engine (scoring_config.py) and of    *)
(* the questionnaire endpoints that persist its result (main.py,           *)
(* database.py).                                                           *)
(*                                                                         *)
(* Texts are TLA+ strings read character by character with SubSeq.  The    *)
(* three non-ASCII characters of the source are written with stand-ins:    *)
(*   "~" is U+2013 (en dash), "^" is U+2014 (em dash), "@" is U+00E8.      *)
(*                                                                         *)
(* Python floats: a category contribution (raw / max) * weight and the     *)
(* running total are kept as exact fractions over Den; a reported          *)
(* contribution round(contrib, 2) is an integer number of hundredths.      *)
(* For every raw category total the answer lists below reach, the binary64 *)
(* quotient, product and sum are the exact values (the first raw totals    *)
(* whose quotient is inexact are 31 of 30 and of 15, and 41 of 20).        *)
(***************************************************************************)
EXTENDS Integers, Sequences, FiniteSets, TLC

\* ------------------------------------------------------------------ bounds
\* answers in a submitted list of the general input family
MaxAnswers == 2
\* selected options in one answer of the single-answer input family
MaxOpts == 2
NumCallers == 2
NumRequests == 2

\* mutation: the Beginner band reaches one point too far
bands_overlapping ==
  << [name |-> "Beginner", min |-> 0,  max |-> 40],
     [name |-> "Engaged",  min |-> 40, max |-> 69],
     [name |-> "Insider",  min |-> 70, max |-> 100] >>

\* ------------------------------------------------------- SCORING_CONFIG
bands ==
  << [name |-> "Beginner", min |-> 0,  max |-> 39],
     [name |-> "Engaged",  min |-> 40, max |-> 69],
     [name |-> "Insider",  min |-> 70, max |-> 100] >>

\* the categories in dictionary (insertion) order
category_order ==
  << "spend_12mo", "sa_loyalty", "purchase_mix", "visit_engagement", "behavior" >>

\* mutation: the behavior category is missing from the dictionary
categories_without_behavior ==
  [ spend_12mo       |-> [weight |-> 30],
    sa_loyalty       |-> [weight |-> 20],
    purchase_mix     |-> [weight |-> 20],
    visit_engagement |-> [weight |-> 15] ]

categories ==
  [ spend_12mo       |-> [weight |-> 30],
    sa_loyalty       |-> [weight |-> 20],
    purchase_mix     |-> [weight |-> 20],
    visit_engagement |-> [weight |-> 15],
    behavior         |-> [weight |-> 15] ]

\* the questions in dictionary (insertion) order
question_order ==
  << "q_spend_12mo", "q_sa_tenure", "q_sa_switches", "q_purchase_mix",
     "q_visit_frequency", "q_wishlist_active", "q_store_vibe", "q_cancellations" >>

\* keys: the option codes of the points table in insertion order
questions ==
  [ q_spend_12mo |->
      [ category |-> "spend_12mo",
        keys |-> << "no_shops", "lt_5000", "5000_15000", "15000_40000", "40000_plus" >>,
        points |-> ("no_shops" :> 0) @@ ("lt_5000" :> 5) @@ ("5000_15000" :> 10)
                   @@ ("15000_40000" :> 20) @@ ("40000_plus" :> 30),
        max_points |-> 30 ],
    q_sa_tenure |->
      [ category |-> "sa_loyalty",
        keys |-> << "no_dedicated_sa", "lt_6m", "6_24m", "gt_2y" >>,
        points |-> ("no_dedicated_sa" :> 0) @@ ("lt_6m" :> 5) @@ ("6_24m" :> 10)
                   @@ ("gt_2y" :> 15),
        max_points |-> 15 ],
    q_sa_switches |->
      [ category |-> "sa_loyalty",
        keys |-> << "no_switches", "1_2_switches", "3_plus_switches" >>,
        points |-> ("no_switches" :> 5) @@ ("1_2_switches" :> 0)
                   @@ ("3_plus_switches" :> (0 - 5)),
        max_points |-> 5 ],
    q_purchase_mix |->
      [ category |-> "purchase_mix",
        keys |-> << "no_purchases", "home", "outdoor_equestrian",
                    "fine_jewellery_watches", "jewellery", "makeup", "fragrances" >>,
        points |-> ("no_purchases" :> 0) @@ ("home" :> 2) @@ ("outdoor_equestrian" :> 3)
                   @@ ("fine_jewellery_watches" :> 5) @@ ("jewellery" :> 5)
                   @@ ("makeup" :> 3) @@ ("fragrances" :> 2),
        max_points |-> 20 ],
    q_visit_frequency |->
      [ category |-> "visit_engagement",
        keys |-> << "have_not_visited", "1_2_per_year", "a_few_per_year",
                    "monthly", "weekly_plus" >>,
        points |-> ("have_not_visited" :> 0) @@ ("1_2_per_year" :> 0)
                   @@ ("a_few_per_year" :> 5) @@ ("monthly" :> 10)
                   @@ ("weekly_plus" :> 15),
        max_points |-> 15 ],
    q_wishlist_active |->
      [ category |-> "visit_engagement",
        keys |-> << "wishlist_yes", "wishlist_no" >>,
        points |-> ("wishlist_yes" :> 5) @@ ("wishlist_no" :> 0),
        max_points |-> 5 ],
    q_store_vibe |->
      [ category |-> "behavior",
        keys |-> << "star_1", "star_2", "star_3", "star_4", "star_5" >>,
        points |-> ("star_1" :> 2) @@ ("star_2" :> 4) @@ ("star_3" :> 6)
                   @@ ("star_4" :> 8) @@ ("star_5" :> 10),
        max_points |-> 10 ],
    q_cancellations |->
      [ category |-> "behavior",
        keys |-> << "ask_cancellations_yes", "ask_cancellations_no" >>,
        points |-> ("ask_cancellations_yes" :> 5) @@ ("ask_cancellations_no" :> 0),
        max_points |-> 5 ] ]

SCORING_CONFIG ==
  [ bands |-> bands, categories |-> categories, questions |-> questions ]

\* ---------------------------------------------------- string primitives
CharAt(s, i) == SubSeq(s, i, i)

UpperChars == "ABCDEFGHIJKLMNOPQRSTUVWXYZ"
LowerChars == "abcdefghijklmnopqrstuvwxyz"
DigitChars == "0123456789"
SpaceChars == { " ", "\t", "\n", "\r", "\f" }

IsDigit(c) == \E d \in 1..10 : CharAt(DigitChars, d) = c

DigitValue(c) == (CHOOSE d \in 1..10 : CharAt(DigitChars, d) = c) - 1

\* str.lower() of one character
LowerChar(c) ==
  IF \E u \in 1..26 : CharAt(UpperChars, u) = c
  THEN CharAt(LowerChars, CHOOSE u \in 1..26 : CharAt(UpperChars, u) = c)
  ELSE c

RECURSIVE str_lower(_)
str_lower(s) ==
  IF Len(s) = 0 THEN ""
  ELSE LowerChar(CharAt(s, 1)) \o str_lower(SubSeq(s, 2, Len(s)))

\* sub in s
str_contains(s, sub) ==
  \E i \in 1..(Len(s) - Len(sub) + 1) : SubSeq(s, i, i + Len(sub) - 1) = sub

str_endswith(s, suffix) ==
  /\ Len(s) >= Len(suffix)
  /\ SubSeq(s, Len(s) - Len(suffix) + 1, Len(s)) = suffix

RECURSIVE str_lstrip(_)
str_lstrip(s) ==
  IF Len(s) > 0 /\ CharAt(s, 1) \in SpaceChars
  THEN str_lstrip(SubSeq(s, 2, Len(s)))
  ELSE s

RECURSIVE str_rstrip(_)
str_rstrip(s) ==
  IF Len(s) > 0 /\ CharAt(s, Len(s)) \in SpaceChars
  THEN str_rstrip(SubSeq(s, 1, Len(s) - 1))
  ELSE s

str_strip(s) == str_rstrip(str_lstrip(s))


\* -------------------------------------------------- re.findall, int()
\* first index >= i of text that holds no white space (Len(text)+1 if none)
RECURSIVE skip_spaces(_, _)
skip_spaces(text, i) ==
  IF i <= Len(text) /\ CharAt(text, i) \in SpaceChars
  THEN skip_spaces(text, i + 1)
  ELSE i

\* [0-9]{1,3} at i (a digit): index of the last digit taken
digits_end(text, i) ==
  IF i + 1 <= Len(text) /\ IsDigit(CharAt(text, i + 1))
  THEN IF i + 2 <= Len(text) /\ IsDigit(CharAt(text, i + 2)) THEN i + 2 ELSE i + 1
  ELSE i

\* (?:,[0-9]{3})* after index j: index of the last character taken
RECURSIVE groups_end(_, _)
groups_end(text, j) ==
  IF /\ j + 4 <= Len(text)
     /\ CharAt(text, j + 1) = ","
     /\ IsDigit(CharAt(text, j + 2))
     /\ IsDigit(CharAt(text, j + 3))
     /\ IsDigit(CharAt(text, j + 4))
  THEN groups_end(text, j + 4)
  ELSE j

\* the pattern \$?\s*([0-9]{1,3}(?:,[0-9]{3})*) tried at index i:
\* [from |-> 0] when it does not match there, else the span of group 1
re_match_at(text, i) ==
  LET after_dollar == IF CharAt(text, i) = "$" THEN i + 1 ELSE i
      first == skip_spaces(text, after_dollar)
  IN  IF first <= Len(text) /\ IsDigit(CharAt(text, first))
      THEN [from |-> first, to |-> groups_end(text, digits_end(text, first))]
      ELSE [from |-> 0, to |-> 0]

\* re.findall(pattern, text): the group-1 strings of the successive
\* non-overlapping matches, scanning from index i
RECURSIVE re_findall(_, _)
re_findall(text, i) ==
  IF i > Len(text) THEN << >>
  ELSE LET m == re_match_at(text, i)
       IN  IF m.from = 0 THEN re_findall(text, i + 1)
           ELSE << SubSeq(text, m.from, m.to) >> \o re_findall(text, m.to + 1)

\* int(n.replace(',', '')) of a string of digits and commas
RECURSIVE int_of(_, _)
int_of(n, acc) ==
  IF Len(n) = 0 THEN acc
  ELSE IF CharAt(n, 1) = "," THEN int_of(SubSeq(n, 2, Len(n)), acc)
  ELSE int_of(SubSeq(n, 2, Len(n)), acc * 10 + DigitValue(CharAt(n, 1)))

\* ------------------------------------------------- map_option_to_code
LEGACY_TEXT_TO_CODE ==
     ("I haven't shopped at an Hermes boutique yet" :> "no_shops")
  @@ ("I haven't shopped at an Herm@s boutique" :> "no_shops")
  @@ ("< $5,000" :> "lt_5000")
  @@ ("$5,000 ~ $15,000" :> "5000_15000")
  @@ ("$5,000 - $15,000" :> "5000_15000")
  @@ ("$15,000 ~ $40,000" :> "15000_40000")
  @@ ("$15,000 - $40,000" :> "15000_40000")
  @@ ("$40,000+" :> "40000_plus")
  @@ ("1 USD to 5,000 USD" :> "lt_5000")
  @@ ("Less than 6 months" :> "lt_6m")
  @@ ("6 ~ 24 months" :> "6_24m")
  @@ ("More than 2 years" :> "gt_2y")
  @@ ("No switches" :> "no_switches")
  @@ ("1 ~ 2 switches" :> "1_2_switches")
  @@ ("3+ switches" :> "3_plus_switches")
  @@ ("Mostly accessories/SLGs" :> "mostly_accessories")
  @@ ("Leather goods + accessories" :> "leather_and_accessories")
  @@ ("Leather goods + RTW/shoes" :> "leather_and_rtw_shoes")
  @@ ("Leather + RTW + jewelry/home" :> "leather_rtw_jewelry_home")
  @@ ("1~2 times per year" :> "1_2_per_year")
  @@ ("A few times per year" :> "a_few_per_year")
  @@ ("Monthly" :> "monthly")
  @@ ("Weekly or more" :> "weekly_plus")
  @@ ("Haven't visited the boutique yet" :> "have_not_visited")
  @@ ("Yes" :> "YES_PLACEHOLDER")
  @@ ("No" :> "NO_PLACEHOLDER")
  @@ ("Do you ask about cancellations/walk-in availability when visiting?"
        :> "ask_cancellations_yes")

\* the first k of keys with k.endswith(suffix), "" when there is none
RECURSIVE first_key_endswith(_, _, _)
first_key_endswith(keys, suffix, i) ==
  IF i > Len(keys) THEN ""
  ELSE IF str_endswith(keys[i], suffix) THEN keys[i]
  ELSE first_key_endswith(keys, suffix, i + 1)

\* the first candidate that is a key of the points table, "" when none is
RECURSIVE first_candidate(_, _, _)
first_candidate(qconf, candidates, i) ==
  IF i > Len(candidates) THEN ""
  ELSE IF candidates[i] \in DOMAIN qconf.points THEN candidates[i]
  ELSE first_candidate(qconf, candidates, i + 1)

\* the two loops under `if lowered == "yes"` (word = "yes") and
\* `if lowered == "no"` (word = "no"): the key returned, "" when neither returns
yes_no_key(qconf, word) ==
  LET k == first_key_endswith(qconf.keys, "_" \o word, 1)
  IN  IF k # "" THEN k
      ELSE first_candidate(qconf,
             << "wishlist_" \o word, "tester_" \o word, "ask_cancellations_" \o word >>, 1)

\* mutation: the boundaries 5000, 15000 and 40000 fall in the lower band
usd_band_boundaries_low(bound) ==
  IF bound <= 5000 THEN "lt_5000"
  ELSE IF bound <= 15000 THEN "5000_15000"
  ELSE IF bound <= 40000 THEN "15000_40000"
  ELSE "40000_plus"

\* the USD band of the representative bound
usd_band(bound) ==
  IF bound < 5000 THEN "lt_5000"
  ELSE IF 5000 <= bound /\ bound < 15000 THEN "5000_15000"
  ELSE IF 15000 <= bound /\ bound < 40000 THEN "15000_40000"
  ELSE "40000_plus"

\* the heuristics of map_option_to_code, tried once the exact match and the
\* legacy table have failed: "haven't", yes/no, USD numbers, symbols, fallback
heuristic_code(qconf, text) ==
  LET lowered == str_lower(str_strip(text))
      nums    == re_findall(text, 1)
      parsed  == [i \in DOMAIN nums |-> int_of(nums[i], 0)]
  IN  IF \/ str_contains(str_lower(text), "haven't")
         \/ str_contains(str_lower(text), "haven t")
        THEN "no_shops"
      ELSE IF lowered = "yes" /\ yes_no_key(qconf, "yes") # ""
        THEN yes_no_key(qconf, "yes")
      ELSE IF lowered = "no" /\ yes_no_key(qconf, "no") # ""
        THEN yes_no_key(qconf, "no")
      ELSE IF Len(parsed) > 0 THEN usd_band(parsed[Len(parsed)])
      ELSE IF str_contains(text, "+") THEN "40000_plus"
      ELSE IF str_contains(text, "<") \/ str_contains(str_lower(text), "less")
        THEN "lt_5000"
      ELSE IF \/ str_contains(text, "^") \/ str_contains(text, "~")
              \/ str_contains(str_lower(text), " to ") \/ str_contains(text, "-")
        THEN "5000_15000"
      ELSE text

\* mutation: the legacy table is not consulted
map_option_to_code_no_legacy(qconf, text) ==
  IF text \in DOMAIN qconf.points THEN text ELSE heuristic_code(qconf, text)

\* mutation: the heuristics are tried before the exact key and the legacy table
map_option_to_code_heuristics_first(qconf, text) ==
  IF heuristic_code(qconf, text) # text THEN heuristic_code(qconf, text)
  ELSE IF text \in DOMAIN qconf.points THEN text
  ELSE IF /\ text \in DOMAIN LEGACY_TEXT_TO_CODE
          /\ LEGACY_TEXT_TO_CODE[text] \notin {"YES_PLACEHOLDER", "NO_PLACEHOLDER"}
    THEN LEGACY_TEXT_TO_CODE[text]
  ELSE text

\* mutation: the legacy entries "Yes" and "No" are returned like the others
map_option_to_code_placeholders(qconf, text) ==
  IF text \in DOMAIN qconf.points THEN text
  ELSE IF text \in DOMAIN LEGACY_TEXT_TO_CODE THEN LEGACY_TEXT_TO_CODE[text]
  ELSE heuristic_code(qconf, text)

map_option_to_code(qconf, text) ==
  IF text \in DOMAIN qconf.points THEN text
  ELSE IF /\ text \in DOMAIN LEGACY_TEXT_TO_CODE
          /\ LEGACY_TEXT_TO_CODE[text] \notin {"YES_PLACEHOLDER", "NO_PLACEHOLDER"}
    THEN LEGACY_TEXT_TO_CODE[text]
  ELSE heuristic_code(qconf, text)

\* ------------------------------------------------------ calculate_score
Max2(a, b) == IF a >= b THEN a ELSE b
Min2(a, b) == IF a <= b THEN a ELSE b

RECURSIVE Gcd(_, _)
Gcd(a, b) == IF b = 0 THEN a ELSE Gcd(b, a % b)

Lcm(a, b) == (a * b) \div Gcd(a, b)

\* mutation: a tie is rounded up
round_half_up(n, d) ==
  LET q == n \div d
      r == n % d
  IN  IF 2 * r >= d THEN q + 1 ELSE q

\* round() of the fraction n / d (d > 0): nearest integer, ties to even
round_half_even(n, d) ==
  LET q == n \div d
      r == n % d
  IN  IF 2 * r > d THEN q + 1
      ELSE IF 2 * r < d THEN q
      ELSE IF q % 2 = 0 THEN q ELSE q + 1

\* mutation: only the exact key is matched, not the "q_" form
RECURSIVE find_q_config_exact_only(_, _)
find_q_config_exact_only(question_id, i) ==
  IF i > Len(question_order) THEN ""
  ELSE IF question_order[i] = question_id THEN question_order[i]
  ELSE find_q_config_exact_only(question_id, i + 1)

\* the first q_key of SCORING_CONFIG["questions"] with
\* q_key == question_id or q_key == "q_" + question_id; "" for q_config = None
RECURSIVE find_q_config(_, _)
find_q_config(question_id, i) ==
  IF i > Len(question_order) THEN ""
  ELSE IF \/ question_order[i] = question_id
          \/ question_order[i] = "q_" \o question_id
    THEN question_order[i]
  ELSE find_q_config(question_id, i + 1)

\* mutation: a code that is no key of the points table scores one point
option_points_default_one(qconf, opt) ==
  LET code == map_option_to_code(qconf, opt)
  IN  IF code \in DOMAIN qconf.points THEN qconf.points[code] ELSE 1

\* points = q_config["points"].get(code, 0) for one selected option
option_points(qconf, opt) ==
  LET code == map_option_to_code(qconf, opt)
  IN  IF code \in DOMAIN qconf.points THEN qconf.points[code] ELSE 0

\* mutation: only the first selected option is scored
selected_points_first_only(qconf, selected, i) ==
  IF Len(selected) = 0 THEN 0 ELSE option_points(qconf, selected[1])

\* for opt in selected: the sum of the points of selected[i..]
RECURSIVE selected_points(_, _, _)
selected_points(qconf, selected, i) ==
  IF i > Len(selected) THEN 0
  ELSE option_points(qconf, selected[i]) + selected_points(qconf, selected, i + 1)

\* the sum of the positive values of a points table over the codes in S
RECURSIVE sum_positive_points(_, _)
sum_positive_points(points, S) ==
  IF S = {} THEN 0
  ELSE LET code == CHOOSE c \in S : TRUE
       IN  Max2(points[code], 0) + sum_positive_points(points, S \ {code})

\* mutation: max_points computed as the sum of the positive point values
max_points_sum_positive(q_key) ==
  sum_positive_points(questions[q_key].points, DOMAIN questions[q_key].points)

\* q_config["max_points"] of a configured question
max_points_of(q_key) == questions[q_key].max_points

\* category_max: the sum of max_points over the questions of each category;
\* a question whose category is no key of the dictionary raises KeyError
category_max_raises ==
  \E i \in DOMAIN question_order :
     questions[question_order[i]].category \notin DOMAIN categories

RECURSIVE sum_max_points(_, _)
sum_max_points(cat, i) ==
  IF i > Len(question_order) THEN 0
  ELSE (IF questions[question_order[i]].category = cat
        THEN max_points_of(question_order[i]) ELSE 0)
       + sum_max_points(cat, i + 1)

\* mutation: the largest max_points of a category instead of the sum
RECURSIVE largest_max_points(_, _)
largest_max_points(cat, i) ==
  IF i > Len(question_order) THEN 0
  ELSE Max2(IF questions[question_order[i]].category = cat
            THEN max_points_of(question_order[i]) ELSE 0,
            largest_max_points(cat, i + 1))

category_max_largest == [cat \in DOMAIN categories |-> largest_max_points(cat, 1)]

category_max == [cat \in DOMAIN categories |-> sum_max_points(cat, 1)]

\* mutation: an answer for an unknown question is scored as the first question
process_answer_unknown_as_first(scores, answer) ==
  LET found == find_q_config(answer.question_id, 1)
      q_key == IF found = "" THEN question_order[1] ELSE found
  IN  IF Len(answer.selected_options) = 0 THEN scores
      ELSE LET qconf == questions[q_key]
           IN  [scores EXCEPT ![qconf.category] =
                  @ + selected_points(qconf, answer.selected_options, 1)]

\* one iteration of `for answer in answers`
process_answer(scores, answer) ==
  LET q_key == find_q_config(answer.question_id, 1)
  IN  IF q_key = "" THEN scores
      ELSE IF Len(answer.selected_options) = 0 THEN scores
      ELSE LET qconf == questions[q_key]
           IN  [scores EXCEPT ![qconf.category] =
                  @ + selected_points(qconf, answer.selected_options, 1)]

\* category_scores after the loop over answers[i..]
RECURSIVE accumulate(_, _, _)
accumulate(scores, answers_in, i) ==
  IF i > Len(answers_in) THEN scores
  ELSE accumulate(process_answer(scores, answers_in[i]), answers_in, i + 1)

\* common denominator of the contributions of the categories with a maximum
RECURSIVE lcm_of_max(_)
lcm_of_max(i) ==
  IF i > Len(category_order) THEN 1
  ELSE IF category_max[category_order[i]] > 0
    THEN Lcm(category_max[category_order[i]], lcm_of_max(i + 1))
  ELSE lcm_of_max(i + 1)

Den == lcm_of_max(1)

\* contrib = (category_scores[cat] / category_max[cat]) * weight, times Den
contrib_num(scores, cat) ==
  IF category_max[cat] > 0
  THEN scores[cat] * categories[cat].weight * (Den \div category_max[cat])
  ELSE 0

\* mutation: the reported contribution is rounded to a whole number
contribution_whole(scores, cat) ==
  IF category_max[cat] > 0
  THEN 100 * round_half_even(scores[cat] * categories[cat].weight, category_max[cat])
  ELSE 0

\* mutation: the reported contribution is clamped to [0, weight]
contribution_clamped(scores, cat) ==
  IF category_max[cat] > 0
  THEN Max2(0, Min2(categories[cat].weight * 100,
         round_half_even(scores[cat] * categories[cat].weight * 100, category_max[cat])))
  ELSE 0

\* round(contrib, 2), in hundredths
contribution(scores, cat) ==
  IF category_max[cat] > 0
  THEN round_half_even(scores[cat] * categories[cat].weight * 100, category_max[cat])
  ELSE 0

\* total_score += contrib over all categories, times Den
RECURSIVE total_num(_, _)
total_num(scores, i) ==
  IF i > Len(category_order) THEN 0
  ELSE contrib_num(scores, category_order[i]) + total_num(scores, i + 1)

\* mutation: the upper clamp is missing
clamp_score_no_ceiling(scores) ==
  Max2(0, round_half_even(total_num(scores, 1), Den))

\* mutation: the lower clamp is missing
clamp_score_no_floor(scores) ==
  Min2(100, round_half_even(total_num(scores, 1), Den))

\* max(0, min(100, round(total_score)))
clamp_score(scores) ==
  Max2(0, Min2(100, round_half_even(total_num(scores, 1), Den)))

\* the first band whose [min, max] holds total, "Beginner" when none does
RECURSIVE find_band(_, _)
find_band(total, i) ==
  IF i > Len(bands) THEN "Beginner"
  ELSE IF bands[i].min <= total /\ total <= bands[i].max THEN bands[i].name
  ELSE find_band(total, i + 1)

\* mutation: the accumulators start at one
ZeroScores_from_one == [cat \in DOMAIN categories |-> 1]

ZeroScores == [cat \in DOMAIN categories |-> 0]

\* the aggregation, the clamp and the band for the accumulated raw scores
score_result(scores) ==
  LET total == clamp_score(scores)
  IN  [ raised |-> "none",
        total_score |-> total,
        band |-> find_band(total, 1),
        category_contributions |->
          [cat \in DOMAIN categories |-> contribution(scores, cat)],
        category_scores |-> scores ]

\* raised: the exception calculate_score ends with, "none" when it returns
calculate_score(answers_in) ==
  IF category_max_raises
  THEN [ raised |-> "KeyError", total_score |-> 0, band |-> "",
         category_contributions |-> ZeroScores, category_scores |-> ZeroScores ]
  ELSE score_result(accumulate(ZeroScores, answers_in, 1))

\* ------------------------------------------------------------- inputs
SeqsUpTo(S, n) == UNION { [1..k -> S] : k \in 0..n }

Answer(q, opts) == [question_id |-> q, selected_options |-> opts]

ConfiguredIds == { question_order[i] : i \in DOMAIN question_order }

\* the identifier without its "q_" prefix
BareId(q) == SubSeq(q, 3, Len(q))

QuestionIds ==
  ConfiguredIds \cup { BareId(q) : q \in ConfiguredIds } \cup { "q_unknown" }

CanonicalCodes == UNION { DOMAIN questions[q].points : q \in ConfiguredIds }

LegacyTexts == DOMAIN LEGACY_TEXT_TO_CODE

MiscTexts ==
  { "gibberish", "yes", " No ", "YES", "I haven't decided", "havent", "haven t",
    "40000", "40,000", "5000", "5,000", "$ 4,999", "14,999", "15,000", "39,999",
    "100 to 20,000", "20,000 to 100", "x+", "a < b", "much less", "a - b",
    "a to b", "a ~ b", "a ^ b", "" }

AllTexts == CanonicalCodes \cup LegacyTexts \cup MiscTexts

CoreTexts ==
  { "40000_plus", "lt_5000", "< $5,000", "3_plus_switches", "3+ switches",
    "home", "fine_jewellery_watches", "a_few_per_year", "gibberish" }

\* the option of a question with the most points (the first such key)
MaxOption(q) ==
  LET qc == questions[q]
      best == CHOOSE i \in DOMAIN qc.keys :
                /\ \A j \in DOMAIN qc.keys : qc.points[qc.keys[j]] <= qc.points[qc.keys[i]]
                /\ \A j \in 1..(i - 1) : qc.points[qc.keys[j]] < qc.points[qc.keys[i]]
  IN  qc.keys[best]

\* one answer per configured question, each with its maximum-point option
MaxPointAnswers ==
  [i \in DOMAIN question_order |->
     Answer(question_order[i], << MaxOption(question_order[i]) >>)]

\* one answer, one option: every identifier with every text
SingleOptionLists ==
  { << Answer(q, << t >>) >> : q \in QuestionIds, t \in AllTexts }

\* one answer, up to MaxOpts options
MultiOptionLists ==
  { << Answer(q, opts) >> : q \in ConfiguredIds \cup {"q_unknown"},
                            opts \in SeqsUpTo(CoreTexts, MaxOpts) }

\* the answers the longer lists are made of: the best option of every
\* question, once and twice, an unknown question and an answer without options
AnswerPool ==
  { Answer(q, << MaxOption(q) >>) : q \in ConfiguredIds }
  \cup { Answer(q, << MaxOption(q), MaxOption(q) >>) : q \in ConfiguredIds }
  \cup { Answer("q_sa_switches", << "3+ switches" >>),
         Answer("q_visit_frequency", << "monthly" >>),
         Answer("q_unknown", << "40000_plus" >>),
         Answer("q_spend_12mo", << >>) }

AnswerLists ==
  SingleOptionLists \cup MultiOptionLists \cup SeqsUpTo(AnswerPool, MaxAnswers)
  \cup { MaxPointAnswers }

\* ------------------------------------------------------------- state
VARIABLES
  pc,              \* "call" / "returned": a direct call of calculate_score; "idle"
  answers,         \* the answer list of the call or of the request
  result,          \* what calculate_score returned (NoResult before)
  users,           \* db.users: the user documents
  questionnaires,  \* db.questionnaires: the documents in insertion order
  response,        \* the last HTTP response
  frames,          \* per caller: the position and the locals of its calculate_score invocation
  accumulators,    \* per invocation slot: the category_scores dictionary
  option,          \* a direct call of map_option_to_code: its arguments and what it returned
  requests         \* per in-flight HTTP request: its position and its locals

vars == << pc, answers, result, users, questionnaires, response, frames, accumulators, option, requests >>

NoResult ==
  [ raised |-> "not called", total_score |-> 0, band |-> "",
    category_contributions |-> ZeroScores, category_scores |-> ZeroScores ]

\* no direct call of map_option_to_code
NoOption == [pc |-> "idle", question |-> "", text |-> "", code |-> ""]

\* no HTTP request in flight
NoRequests == << >>

NoResponse == [op |-> "none", user_id |-> "", status |-> 0, body |-> [detail |-> ""]]

\* the callers that invoke calculate_score side by side
Callers == 1..NumCallers

\* a caller that has not invoked calculate_score
IdleFrame == [pc |-> "idle", answers |-> << >>, i |-> 0, earlier |-> FALSE, result |-> NoResult]

\* ---------------------------------- calculate_score called directly
InitScore ==
  /\ pc = "call"
  /\ answers \in AnswerLists
  /\ result = NoResult
  /\ users = {}
  /\ questionnaires = << >>
  /\ response = NoResponse
  /\ frames = [p \in Callers |-> IdleFrame]
  /\ accumulators = [p \in Callers |-> ZeroScores]
  /\ option = NoOption
  /\ requests = NoRequests

CalculateScore ==
  /\ pc = "call"
  /\ result' = calculate_score(answers)
  /\ pc' = "returned"
  /\ UNCHANGED << answers, users, questionnaires, response, frames, accumulators, option, requests >>

NextScore == CalculateScore

SpecScore == InitScore /\ [][NextScore]_vars

\* ------------------------------------------------- the HTTP endpoints
Emails == { "a@example.com", "b@example.com" }

\* the values uuid.uuid4() can return for a user and for a questionnaire
UserIdPool == { "user-1", "user-2" }
QuestionnaireIdPool == { "qn-1", "qn-2" }

\* the answer lists of the submissions
SubmitAnswerLists ==
  { << >>,
    << Answer("q_spend_12mo", << "40000_plus" >>) >>,
    << Answer("q_visit_frequency", << "a_few_per_year" >>) >>,
    << Answer("q_sa_switches", << "3+ switches" >>) >>,
    << Answer("q_unknown", << "gibberish" >>) >>,
    MaxPointAnswers }

Init ==
  /\ pc = "idle"
  /\ answers = << >>
  /\ result = NoResult
  /\ users = {}
  /\ questionnaires = << >>
  /\ response = NoResponse
  /\ frames = [p \in Callers |-> IdleFrame]
  /\ accumulators = [p \in Callers |-> ZeroScores]
  /\ option = NoOption
  /\ requests = NoRequests

\* mutation: the lookup ignores the id and returns every user document
get_user_by_id_any(user_id) == users

\* db.get_user_by_id: the user documents with this id
get_user_by_id(user_id) == { u \in users : u.id = user_id }

\* db.user_exists
user_exists(email) == \E u \in users : u.email = email

\* POST /api/auth/register
register(email) ==
  /\ pc = "idle"
  /\ IF user_exists(email)
     THEN /\ response' = [op |-> "register", user_id |-> "", status |-> 409,
                          body |-> [detail |-> "User with this email already exists"]]
          /\ UNCHANGED users
     ELSE \E id \in UserIdPool \ { u.id : u \in users } :
            /\ users' = users \cup { [id |-> id, email |-> email] }
            /\ response' = [op |-> "register", user_id |-> id, status |-> 201,
                            body |-> [user_id |-> id, email |-> email]]
  /\ UNCHANGED << pc, answers, result, questionnaires, frames, accumulators, option, requests >>

\* mutation: the filter on user_id is missing, the first document is found
find_one_any(docs, user_id, i) == IF Len(docs) = 0 THEN 0 ELSE 1

\* find_one({"user_id": user_id}): the index of the first such document, 0 for None
RECURSIVE find_one(_, _, _)
find_one(docs, user_id, i) ==
  IF i > Len(docs) THEN 0
  ELSE IF docs[i].user_id = user_id THEN i
  ELSE find_one(docs, user_id, i + 1)

\* update_one({"user_id": user_id}, {"$set": ...}): the first such document
update_one(docs, user_id, answers_in, r) ==
  LET i == find_one(docs, user_id, 1)
  IN  IF i = 0 THEN docs
      ELSE [docs EXCEPT ![i] = [@ EXCEPT !.answers = answers_in,
                                         !.score = r.total_score,
                                         !.band = r.band,
                                         !.category_scores = r.category_contributions]]

\* db.save_questionnaire with questionnaire_id = str(uuid.uuid4()) = fresh_id:
\* the collection afterwards and the id of the returned dictionary
save_questionnaire(user_id, answers_in, r, fresh_id) ==
  LET existing == find_one(questionnaires, user_id, 1)
  IN  IF existing # 0
      THEN [ docs |-> update_one(questionnaires, user_id, answers_in, r),
             id |-> questionnaires[existing].id ]
      ELSE [ docs |-> Append(questionnaires,
                        [ id |-> fresh_id, user_id |-> user_id, answers |-> answers_in,
                          score |-> r.total_score, band |-> r.band,
                          category_scores |-> r.category_contributions ]),
             id |-> fresh_id ]

\* the values str(uuid.uuid4()) takes in save_questionnaire: an id no stored
\* document has; when the user has a document the value is discarded, and one
\* value stands for all
uuid4_values(user_id) ==
  IF find_one(questionnaires, user_id, 1) # 0
  THEN { CHOOSE id \in QuestionnaireIdPool : TRUE }
  ELSE QuestionnaireIdPool \ { questionnaires[i].id : i \in DOMAIN questionnaires }

\* QuestionnaireResponse.category_scores is Dict[str, int]: a float is accepted
\* as an int only when it has no fractional part
valid_int_scores(contributions) ==
  \A cat \in DOMAIN contributions : contributions[cat] % 100 = 0

\* POST /api/questionnaire/submit
submit_questionnaire(user_id, answers_in) ==
  /\ pc = "idle"
  /\ answers' = answers_in
  /\ IF get_user_by_id(user_id) = {}
     THEN /\ response' = [op |-> "submit_questionnaire", user_id |-> user_id,
                          status |-> 404, body |-> [detail |-> "User not found"]]
          /\ result' = NoResult
          /\ UNCHANGED questionnaires
     ELSE LET r == calculate_score(answers_in)
          IN  /\ result' = r
              /\ IF r.raised # "none"
                 THEN /\ response' = [op |-> "submit_questionnaire", user_id |-> user_id,
                                      status |-> 500, body |-> [detail |-> r.raised]]
                      /\ UNCHANGED questionnaires
                 ELSE \E fresh_id \in uuid4_values(user_id) :
                        LET saved == save_questionnaire(user_id, answers_in, r, fresh_id)
                        IN  /\ questionnaires' = saved.docs
                            /\ response' =
                                 IF valid_int_scores(r.category_contributions)
                                 THEN [ op |-> "submit_questionnaire", user_id |-> user_id,
                                        status |-> 201,
                                        body |-> [ questionnaire_id |-> saved.id,
                                                   score |-> r.total_score,
                                                   band |-> r.band,
                                                   category_scores |->
                                                     [cat \in DOMAIN r.category_contributions |->
                                                        r.category_contributions[cat] \div 100] ] ]
                                 ELSE [ op |-> "submit_questionnaire", user_id |-> user_id,
                                        status |-> 500,
                                        body |-> [detail |-> "ValidationError"] ]
  /\ UNCHANGED << pc, users, frames, accumulators, option, requests >>

\* GET /api/questionnaire/{user_id}
get_questionnaire(user_id) ==
  /\ pc = "idle"
  /\ LET i == find_one(questionnaires, user_id, 1)
     IN  response' =
           IF i = 0
           THEN [ op |-> "get_questionnaire", user_id |-> user_id, status |-> 404,
                  body |-> [detail |-> "Questionnaire not found for this user"] ]
           ELSE [ op |-> "get_questionnaire", user_id |-> user_id, status |-> 200,
                  body |-> questionnaires[i] ]
  /\ UNCHANGED << pc, answers, result, users, questionnaires, frames, accumulators, option, requests >>

Next ==
  \/ \E email \in Emails : register(email)
  \/ \E user_id \in UserIdPool : \E answers_in \in SubmitAnswerLists :
        submit_questionnaire(user_id, answers_in)
  \/ \E user_id \in UserIdPool : get_questionnaire(user_id)

Spec == Init /\ [][Next]_vars

\* ---------------------------------- submissions in flight side by side

\* the requests that are handled side by side
Requests == 1..NumRequests

\* a request that has not arrived
IdleRequest ==
  [ pc |-> "idle", user_id |-> "", answers |-> << >>, scored |-> NoResult,
    existing |-> "", response |-> NoResponse ]

\* the answer lists of the interleaved submissions
RaceAnswerLists ==
  { << Answer("q_spend_12mo", << "40000_plus" >>) >>,
    << Answer("q_visit_frequency", << "a_few_per_year" >>) >>,
    << Answer("q_sa_switches", << "3+ switches" >>) >> }

\* the user registered before the requests arrive
RegisteredUser == [id |-> "user-1", email |-> "a@example.com"]

InitSubmit ==
  /\ pc = "idle"
  /\ answers = << >>
  /\ result = NoResult
  /\ users = { RegisteredUser }
  /\ questionnaires = << >>
  /\ response = NoResponse
  /\ frames = [p \in Callers |-> IdleFrame]
  /\ accumulators = [p \in Callers |-> ZeroScores]
  /\ option = NoOption
  /\ requests = [r \in Requests |-> IdleRequest]

\* str(uuid.uuid4()) in the save of request r: a value of its own
request_uuid(r) == "qn-r" \o ToString(r)

\* the request arrives: await db.get_user_by_id, the 404, calculate_score
submit_get_user(r, user_id, answers_in) ==
  /\ requests[r].pc = "idle"
  /\ IF get_user_by_id(user_id) = {}
     THEN requests' = [requests EXCEPT ![r] =
            [ pc |-> "done", user_id |-> user_id, answers |-> answers_in,
              scored |-> NoResult, existing |-> "",
              response |-> [ op |-> "submit_questionnaire", user_id |-> user_id,
                             status |-> 404, body |-> [detail |-> "User not found"] ] ]]
     ELSE requests' = [requests EXCEPT ![r] =
            [ pc |-> "find_one", user_id |-> user_id, answers |-> answers_in,
              scored |-> calculate_score(answers_in), existing |-> "",
              response |-> NoResponse ]]
  /\ UNCHANGED << pc, answers, result, users, questionnaires, response,
                  frames, accumulators, option >>

\* save_questionnaire: existing = await find_one({"user_id": user_id})
save_find_one(r) ==
  /\ requests[r].pc = "find_one"
  /\ LET i == find_one(questionnaires, requests[r].user_id, 1)
     IN  requests' = [requests EXCEPT ![r].pc = "write",
                                      ![r].existing = IF i = 0 THEN "none" ELSE questionnaires[i].id]
  /\ UNCHANGED << pc, answers, result, users, questionnaires, response,
                  frames, accumulators, option >>

\* save_questionnaire: await update_one or await insert_one, as `existing`
\* tells, then the response of the handler
save_write(r) ==
  /\ requests[r].pc = "write"
  /\ LET req == requests[r]
         sc == req.scored
         id == IF req.existing # "none" THEN req.existing ELSE request_uuid(r)
     IN  /\ questionnaires' =
               IF req.existing # "none"
               THEN update_one(questionnaires, req.user_id, req.answers, sc)
               ELSE Append(questionnaires,
                      [ id |-> id, user_id |-> req.user_id, answers |-> req.answers,
                        score |-> sc.total_score, band |-> sc.band,
                        category_scores |-> sc.category_contributions ])
         /\ requests' = [requests EXCEPT
               ![r].pc = "done",
               ![r].response =
                  IF valid_int_scores(sc.category_contributions)
                  THEN [ op |-> "submit_questionnaire", user_id |-> req.user_id,
                         status |-> 201,
                         body |-> [ questionnaire_id |-> id,
                                    score |-> sc.total_score,
                                    band |-> sc.band,
                                    category_scores |->
                                      [cat \in DOMAIN sc.category_contributions |->
                                         sc.category_contributions[cat] \div 100] ] ]
                  ELSE [ op |-> "submit_questionnaire", user_id |-> req.user_id,
                         status |-> 500, body |-> [detail |-> "ValidationError"] ]]
  /\ UNCHANGED << pc, answers, result, users, response, frames, accumulators, option >>

NextSubmit ==
  \/ \E r \in Requests : \E user_id \in UserIdPool : \E answers_in \in RaceAnswerLists :
        submit_get_user(r, user_id, answers_in)
  \/ \E r \in Requests : save_find_one(r)
  \/ \E r \in Requests : save_write(r)

SpecSubmit == InitSubmit /\ [][NextSubmit]_vars

\* ---------------------------------- registrations and profile updates side by side

\* str.replace(" ", "")
RECURSIVE str_remove_spaces(_)
str_remove_spaces(text) ==
  IF Len(text) = 0 THEN ""
  ELSE IF CharAt(text, 1) = " " THEN str_remove_spaces(SubSeq(text, 2, Len(text)))
  ELSE CharAt(text, 1) \o str_remove_spaces(SubSeq(text, 2, Len(text)))

\* f"{first_name.lower()}{last_name.lower()}".replace(" ", "")
base_username(first_name, last_name) ==
  str_remove_spaces(str_lower(first_name) \o str_lower(last_name))

\* db.username_exists(username, exclude_user_id); exclude_user_id "" is None
username_exists(username, exclude_user_id) ==
  \E u \in users : /\ u.username = username
                   /\ (exclude_user_id # "" => u.id # exclude_user_id)

\* the users registered before the requests arrive
RegisteredProfiles ==
  { [id |-> "user-1", email |-> "a@example.com", username |-> "janedoe"],
    [id |-> "user-2", email |-> "b@example.com", username |-> "annlee"] }

\* the e-mail addresses and the names of the registrations
RegisterEmails == { "a@example.com", "c@example.com" }
RegisterNames == { << "Jane", "Doe" >>, << "Ann ", "LEE" >> }

\* ProfileUpdateRequest.username: None, or a string
None == "<None>"
UpdateUsernames == { None, "", "janedoe", "star" }

\* a request that has not arrived
IdleUserRequest ==
  [ pc |-> "idle", op |-> "", user_id |-> "", email |-> "", base |-> "",
    username |-> "", counter |-> 0, status |-> 0 ]

InitUsers ==
  /\ pc = "idle"
  /\ answers = << >>
  /\ result = NoResult
  /\ users = RegisteredProfiles
  /\ questionnaires = << >>
  /\ response = NoResponse
  /\ frames = [p \in Callers |-> IdleFrame]
  /\ accumulators = [p \in Callers |-> ZeroScores]
  /\ option = NoOption
  /\ requests = [r \in Requests |-> IdleUserRequest]

\* register: await db.user_exists, the 409, then create_user up to its loop
register_user_exists(r, email, names) ==
  /\ requests[r].pc = "idle"
  /\ requests' = [requests EXCEPT ![r] =
       IF user_exists(email)
       THEN [ pc |-> "done", op |-> "register", user_id |-> "", email |-> email,
              base |-> "", username |-> "", counter |-> 0, status |-> 409 ]
       ELSE [ pc |-> "username_loop", op |-> "register",
              user_id |-> "user-r" \o ToString(r), email |-> email,
              base |-> base_username(names[1], names[2]),
              username |-> base_username(names[1], names[2]),
              counter |-> 1, status |-> 0 ]]
  /\ UNCHANGED << pc, answers, result, users, questionnaires, response,
                  frames, accumulators, option >>

\* create_user: one test of `while await self.username_exists(username)`
create_user_username_exists(r) ==
  /\ requests[r].pc = "username_loop"
  /\ requests' = [requests EXCEPT ![r] =
       IF username_exists(requests[r].username, "")
       THEN [@ EXCEPT !.username = requests[r].base \o ToString(requests[r].counter),
                      !.counter = @ + 1]
       ELSE [@ EXCEPT !.pc = "insert_one"]]
  /\ UNCHANGED << pc, answers, result, users, questionnaires, response,
                  frames, accumulators, option >>

\* create_user: await self.db.users.insert_one(user_doc), and the 201
create_user_insert_one(r) ==
  /\ requests[r].pc = "insert_one"
  /\ users' = users \cup { [ id |-> requests[r].user_id, email |-> requests[r].email,
                             username |-> requests[r].username ] }
  /\ requests' = [requests EXCEPT ![r].pc = "done", ![r].status = 201]
  /\ UNCHANGED << pc, answers, result, questionnaires, response,
                  frames, accumulators, option >>

\* update_profile of an authenticated user: the uniqueness test, made only
\* for a username that is not None and not empty; a request without any
\* field returns the profile
update_profile_check(r, user_id, username) ==
  /\ requests[r].pc = "idle"
  /\ get_user_by_id(user_id) # {}
  /\ requests' = [requests EXCEPT ![r] =
       [ IdleUserRequest EXCEPT
           !.op = "update_profile", !.user_id = user_id, !.username = username,
           !.pc = IF username \notin { None, "" } /\ username_exists(username, user_id)
                    THEN "done"
                  ELSE IF username = None THEN "done"
                  ELSE "update_user",
           !.status = IF username \notin { None, "" } /\ username_exists(username, user_id)
                        THEN 409
                      ELSE IF username = None THEN 200
                      ELSE 0 ]]
  /\ UNCHANGED << pc, answers, result, users, questionnaires, response,
                  frames, accumulators, option >>

\* db.update_user: update_one({"id": user_id}, {"$set": update_data})
update_user(r) ==
  /\ requests[r].pc = "update_user"
  /\ users' = { IF u.id = requests[r].user_id
                THEN [u EXCEPT !.username = requests[r].username] ELSE u : u \in users }
  /\ requests' = [requests EXCEPT ![r].pc = "done", ![r].status = 200]
  /\ UNCHANGED << pc, answers, result, questionnaires, response,
                  frames, accumulators, option >>

NextUsers ==
  \/ \E r \in Requests : \E email \in RegisterEmails : \E names \in RegisterNames :
        register_user_exists(r, email, names)
  \/ \E r \in Requests : create_user_username_exists(r)
  \/ \E r \in Requests : create_user_insert_one(r)
  \/ \E r \in Requests : \E u \in users : \E username \in UpdateUsernames :
        update_profile_check(r, u.id, username)
  \/ \E r \in Requests : update_user(r)

SpecUsers == InitUsers /\ [][NextUsers]_vars

\* ------------------------------------------- helpers of the claims
Returned == pc = "returned"

\* round(total_score) before the clamp, for the accumulated raw scores
UnclampedTotal(scores) == round_half_even(total_num(scores, 1), Den)

\* the answer list is one answer for question q with the one option text t
OneAnswer(q, t) == answers = << Answer(q, << t >>) >>

\* ---------------------------------- map_option_to_code called directly

\* texts that meet the heuristics in combination
HeuristicTexts ==
  { "haven t 40,000", "I havent shopped - yet", "I havent spent less", "HAVEN'T",
    "I haven't spent 40,000", " yes ", "no", "NO", "yes 40,000", "Yes+",
    "15000", "4,999", "999", "1,000,000", "$40,000 or more", "up to 5,000",
    "40,000 to 5,000", "5,000 to 40,000", "15,000 - 4,999", "12,34", "1,2345",
    "more+", "less+", "7 + 8" }

MapTexts == AllTexts \cup HeuristicTexts

InitMap ==
  /\ pc = "idle"
  /\ answers = << >>
  /\ result = NoResult
  /\ users = {}
  /\ questionnaires = << >>
  /\ response = NoResponse
  /\ frames = [p \in Callers |-> IdleFrame]
  /\ accumulators = [p \in Callers |-> ZeroScores]
  /\ requests = NoRequests
  /\ option \in { [pc |-> "call", question |-> q, text |-> t, code |-> ""] :
                    q \in ConfiguredIds, t \in MapTexts }

MapOptionToCode ==
  /\ option.pc = "call"
  /\ option' = [option EXCEPT !.pc = "returned",
                              !.code = map_option_to_code(questions[option.question],
                                                          option.text)]
  /\ UNCHANGED << pc, answers, result, users, questionnaires, response,
                  frames, accumulators, requests >>

NextMap == MapOptionToCode

SpecMap == InitMap /\ [][NextMap]_vars

\* ---------------------------------- calculate_score invoked side by side

\* the answer lists of the interleaved invocations
CallAnswerLists ==
  { << >>,
    << Answer("q_spend_12mo", << "40000_plus" >>) >>,
    << Answer("q_spend_12mo", << "40000_plus" >>),
       Answer("q_sa_switches", << "3+ switches" >>) >>,
    << Answer("q_visit_frequency", << "a_few_per_year" >>),
       Answer("q_unknown", << "40000_plus" >>) >>,
    << Answer("purchase_mix", << "home", "jewellery" >>) >> }

InitCalls ==
  /\ pc = "idle"
  /\ answers = << >>
  /\ result = NoResult
  /\ users = {}
  /\ questionnaires = << >>
  /\ response = NoResponse
  /\ frames = [p \in Callers |-> IdleFrame]
  /\ accumulators = [p \in Callers |-> ZeroScores]
  /\ option = NoOption
  /\ requests = NoRequests

\* mutation: every invocation uses the same dictionary
slot_shared(p) == 1

\* category_scores is a local of the invocation: each invocation has its own
slot_of(p) == p

\* mutation: the dictionary keeps what the earlier invocation left in it
initial_scores_kept(previous) == previous

\* category_scores = {cat: 0 for cat in categories}
initial_scores(previous) == ZeroScores

\* the call: category_scores and category_max are set up
call_start(p, answers_in) ==
  /\ frames[p].pc \in { "idle", "done" }
  /\ IF category_max_raises
     THEN /\ frames' = [frames EXCEPT ![p] =
                          [ pc |-> "done", answers |-> answers_in, i |-> 0,
                            earlier |-> frames[p].pc = "done",
                            result |-> calculate_score(answers_in) ]]
          /\ UNCHANGED accumulators
     ELSE /\ frames' = [frames EXCEPT ![p] =
                          [ pc |-> "loop", answers |-> answers_in, i |-> 1,
                            earlier |-> frames[p].pc = "done",
                            result |-> NoResult ]]
          /\ accumulators' = [accumulators EXCEPT ![slot_of(p)] = initial_scores(@)]
  /\ UNCHANGED << pc, answers, result, users, questionnaires, response, option, requests >>

\* one pass of the loop over the answers
call_answer(p) ==
  /\ frames[p].pc = "loop"
  /\ frames[p].i <= Len(frames[p].answers)
  /\ accumulators' = [accumulators EXCEPT ![slot_of(p)] =
                        process_answer(@, frames[p].answers[frames[p].i])]
  /\ frames' = [frames EXCEPT ![p].i = @ + 1]
  /\ UNCHANGED << pc, answers, result, users, questionnaires, response, option, requests >>

\* the aggregation after the loop, and the return
call_return(p) ==
  /\ frames[p].pc = "loop"
  /\ frames[p].i > Len(frames[p].answers)
  /\ frames' = [frames EXCEPT ![p].pc = "done",
                              ![p].result = score_result(accumulators[slot_of(p)])]
  /\ UNCHANGED << pc, answers, result, users, questionnaires, response, accumulators, option, requests >>

NextCalls ==
  \/ \E p \in Callers : \E answers_in \in CallAnswerLists : call_start(p, answers_in)
  \/ \E p \in Callers : call_answer(p)
  \/ \E p \in Callers : call_return(p)

SpecCalls == InitCalls /\ [][NextCalls]_vars

\* ------------------------------------------------------------- claims

\* C1: whatever the answer list, the total_score calculate_score returns is
\* an integer between 0 and 100.
C1_TotalWithinRange ==
  Returned => result.total_score \in 0..100

\* C1 witness: a call whose rounded total exceeded 100 and was clamped
C1_Witness_ClampedFromAbove ==
  /\ Returned
  /\ UnclampedTotal(result.category_scores) > 100
  /\ result.total_score = 100

\* C2 as claimed: one answer per question with its maximum-point option gives
\* total 100, band Insider and every category its full weight.
C2_Claimed_MaxOptionsScore100 ==
  (Returned /\ answers = MaxPointAnswers) =>
     /\ result.total_score = 100
     /\ result.band = "Insider"
     /\ \A cat \in DOMAIN categories :
          result.category_contributions[cat] = categories[cat].weight * 100

\* C2 amended: one answer per question with its maximum-point option gives
\* total 85 and band Insider; every category contributes its full weight but
\* purchase_mix, which contributes 5.00 (5 of its 20 maximum points).
C2_MaxOptionsScore85 ==
  (Returned /\ answers = MaxPointAnswers) =>
     /\ result.total_score = 85
     /\ result.band = "Insider"
     /\ result.category_contributions["purchase_mix"] = 500
     /\ \A cat \in DOMAIN categories \ {"purchase_mix"} :
          result.category_contributions[cat] = categories[cat].weight * 100

\* C2 witness: the call with the maximum-point answers has returned
C2_Witness_MaxOptionsScored ==
  /\ Returned
  /\ answers = MaxPointAnswers
  /\ Len(answers) = Len(question_order)

\* the first questionnaire stored for a user, as a set (empty when none is)
StoredFor(user_id) ==
  LET i == find_one(questionnaires, user_id, 1)
  IN  IF i = 0 THEN {} ELSE { questionnaires[i] }

\* C3 as claimed: a submission for an existing user is answered 201 with the
\* score, band and category scores calculate_score returns for its answers,
\* and these are the values stored for the user.
C3_Claimed_SubmitReturnsAndStoresScore ==
  (response.op = "submit_questionnaire" /\ get_user_by_id(response.user_id) # {}) =>
     LET r == calculate_score(answers)
     IN  /\ response.status = 201
         /\ response.body.score = r.total_score
         /\ response.body.band = r.band
         /\ \A cat \in DOMAIN categories :
              response.body.category_scores[cat] * 100 = r.category_contributions[cat]
         /\ \E doc \in StoredFor(response.user_id) :
              /\ doc.score = r.total_score
              /\ doc.band = r.band
              /\ doc.category_scores = r.category_contributions

\* C4: calculate_score never raises; it returns the triple of a total, a band
\* name and a contribution for every category.
C4_NeverRaises ==
  Returned =>
     /\ result.raised = "none"
     /\ result.total_score \in Int
     /\ result.band \in { bands[i].name : i \in DOMAIN bands }
     /\ DOMAIN result.category_contributions = DOMAIN categories

\* C4 witness: a call returned for an answer that names no configured
\* question, or whose option text is empty
C4_Witness_MalformedAnswerScored ==
  /\ Returned
  /\ Len(answers) = 1
  /\ \/ find_q_config(answers[1].question_id, 1) = ""
     \/ answers[1].selected_options = << "" >>

\* texts that no resolution rule recognises
UnrecognisedTexts == { "gibberish", "" }

\* C5: an option text no rule recognises is returned unchanged by the
\* resolver and adds 0 points to the category of the question it is sent for.
C5_UnknownOptionScoresZero ==
  \A q \in ConfiguredIds : \A t \in UnrecognisedTexts :
     (Returned /\ OneAnswer(q, t)) =>
        /\ map_option_to_code(questions[q], t) = t
        /\ result.raised = "none"
        /\ result.category_scores[questions[q].category] = 0
        /\ result.category_contributions[questions[q].category] = 0

\* C5 witness: "gibberish" was scored for a configured question
C5_Witness_GibberishScored ==
  /\ Returned
  /\ \E q \in ConfiguredIds : OneAnswer(q, "gibberish")

\* the canonical code a legacy label stands for when it is sent for question
\* q: the code of the table, and for the placeholder labels "Yes" and "No"
\* the *_yes / *_no key of the question ("" when it has none)
CanonicalCode(q, t) ==
  IF LEGACY_TEXT_TO_CODE[t] = "YES_PLACEHOLDER"
    THEN first_key_endswith(questions[q].keys, "_yes", 1)
  ELSE IF LEGACY_TEXT_TO_CODE[t] = "NO_PLACEHOLDER"
    THEN first_key_endswith(questions[q].keys, "_no", 1)
  ELSE LEGACY_TEXT_TO_CODE[t]

\* the questions a legacy label is an option of: those whose points table
\* holds its code; every question when no points table holds the code of a
\* label that is no placeholder
LabelQuestions(t) ==
  LET owners == { q \in ConfiguredIds : CanonicalCode(q, t) \in DOMAIN questions[q].points }
  IN  IF owners = {} /\ CanonicalCode("q_spend_12mo", t) = LEGACY_TEXT_TO_CODE[t]
      THEN ConfiguredIds ELSE owners

\* C6: a legacy label and the canonical code it maps to, sent for the same
\* question, give the same category contributions and the same total, for
\* every entry of the legacy table.
C6_LegacyEqualsCanonical ==
  \A t \in LegacyTexts : \A q \in LabelQuestions(t) :
     (Returned /\ OneAnswer(q, t)) =>
        LET canonical == calculate_score(<< Answer(q, << CanonicalCode(q, t) >>) >>)
        IN  /\ result.category_contributions = canonical.category_contributions
            /\ result.total_score = canonical.total_score
            /\ result.band = canonical.band

\* C6 witness: "< $5,000" was scored for q_spend_12mo with a contribution
C6_Witness_LegacySpendLabelScored ==
  /\ Returned
  /\ OneAnswer("q_spend_12mo", "< $5,000")
  /\ result.category_contributions["spend_12mo"] > 0

\* the name of the band a score belongs to
BandOf(s) ==
  IF s <= 39 THEN "Beginner" ELSE IF s <= 69 THEN "Engaged" ELSE "Insider"

\* C7: every integer score 0..100 lies in exactly one configured band, and
\* the band returned is that band: Beginner 0..39, Engaged 40..69, Insider 70..100.
C7_BandCoverage ==
  /\ \A s \in 0..100 :
        Cardinality({ i \in DOMAIN bands : bands[i].min <= s /\ s <= bands[i].max }) = 1
  /\ Returned => result.band = BandOf(result.total_score)

\* C7 witness: a call returned a score on the first point of the Engaged band
C7_Witness_EngagedLowerEdge ==
  /\ Returned
  /\ result.total_score = 40
  /\ result.band = "Engaged"

\* C8: q_sa_switches answered alone with "3+ switches" or "3_plus_switches":
\* sa_loyalty has a negative raw total and a negative contribution, the total
\* is clamped to 0 and the band is Beginner.
C8_NegativeCategoryClamped ==
  \A t \in { "3+ switches", "3_plus_switches" } :
     (Returned /\ OneAnswer("q_sa_switches", t)) =>
        /\ result.category_scores["sa_loyalty"] < 0
        /\ result.category_contributions["sa_loyalty"] < 0
        /\ result.total_score = 0
        /\ result.band = "Beginner"

\* C8 witness: "3+ switches" alone was scored and the rounded total was negative
C8_Witness_SwitchesOnly ==
  /\ Returned
  /\ OneAnswer("q_sa_switches", "3+ switches")
  /\ UnclampedTotal(result.category_scores) < 0

\* the raw points one option text alone earns for question q
RawAlone(q, t) ==
  calculate_score(<< Answer(q, << t >>) >>).category_scores[questions[q].category]

RECURSIVE SumRawAlone(_, _, _)
SumRawAlone(q, selected, i) ==
  IF i > Len(selected) THEN 0
  ELSE RawAlone(q, selected[i]) + SumRawAlone(q, selected, i + 1)

\* C9: the options of one answer are resolved one by one and their points are
\* summed into the raw total of the category; "home" and
\* "fine_jewellery_watches" for q_purchase_mix give 2 + 5 = 7.
C9_MultiSelectSummation ==
  /\ (Returned /\ Len(answers) = 1 /\ answers[1].question_id \in ConfiguredIds) =>
        LET q == answers[1].question_id
        IN  result.category_scores[questions[q].category]
              = SumRawAlone(q, answers[1].selected_options, 1)
  /\ (Returned /\ answers = << Answer("q_purchase_mix",
                                      << "home", "fine_jewellery_watches" >>) >>) =>
        result.category_scores["purchase_mix"] = 7

\* C9 witness: the two purchase_mix options were scored in one answer
C9_Witness_TwoOptionsScored ==
  /\ Returned
  /\ answers = << Answer("q_purchase_mix", << "home", "fine_jewellery_watches" >>) >>

\* C10: the empty answer list gives total 0, band Beginner and a contribution
\* of 0 for every category.
C10_EmptyListScoresZero ==
  (Returned /\ answers = << >>) =>
     /\ result.total_score = 0
     /\ result.band = "Beginner"
     /\ \A cat \in DOMAIN categories : result.category_contributions[cat] = 0

\* C10 witness: the call with the empty list has returned
C10_Witness_EmptyListScored ==
  /\ Returned
  /\ answers = << >>
  /\ result.raised = "none"

\* the answer names no configured question (neither as it is nor with "q_"
\* in front), or selects no option
IsSkipped(answer) ==
  \/ /\ answer.question_id \notin ConfiguredIds
     /\ ("q_" \o answer.question_id) \notin ConfiguredIds
  \/ answer.selected_options = << >>

\* the answers of a list that are not skipped, in order
RECURSIVE WithoutSkipped(_)
WithoutSkipped(list) ==
  IF Len(list) = 0 THEN << >>
  ELSE IF IsSkipped(Head(list)) THEN WithoutSkipped(Tail(list))
  ELSE << Head(list) >> \o WithoutSkipped(Tail(list))

\* C11: an answer for an unknown question, or without selected options, is
\* skipped: the result is the result for the list without those answers.
C11_SkippedAnswersIgnored ==
  Returned => result = calculate_score(WithoutSkipped(answers))

\* C11 witness: a list with a skipped unknown-question answer that selects a
\* known code, next to an answer that scored
C11_Witness_SkippedBesideScored ==
  /\ Returned
  /\ \E i \in DOMAIN answers :
        /\ IsSkipped(answers[i])
        /\ answers[i].selected_options = << "40000_plus" >>
  /\ \E i \in DOMAIN answers : ~IsSkipped(answers[i])
  /\ result.total_score > 0

\* C12: for every configured question q_X, an answer with the bare
\* identifier X gives the same result as the answer with q_X and the same options.
C12_BareIdEqualsPrefixedId ==
  \A q \in ConfiguredIds :
     (Returned /\ Len(answers) = 1 /\ answers[1].question_id = BareId(q)) =>
        result = calculate_score(<< Answer(q, answers[1].selected_options) >>)

\* C12 witness: an answer sent with a bare identifier earned points
C12_Witness_BareIdScored ==
  /\ Returned
  /\ Len(answers) = 1
  /\ \E q \in ConfiguredIds : answers[1].question_id = BareId(q)
  /\ \E cat \in DOMAIN categories : result.category_scores[cat] > 0

\* the configured questions of a category
QuestionsIn(cat) == { q \in ConfiguredIds : questions[q].category = cat }

\* the sum of max_points over a set of questions
RECURSIVE SumMaxPoints(_)
SumMaxPoints(S) ==
  IF S = {} THEN 0
  ELSE LET q == CHOOSE x \in S : TRUE
       IN  max_points_of(q) + SumMaxPoints(S \ {q})

\* the sum over the categories in S of raw * weight / category_max, times 60
RECURSIVE ExactTotal60(_, _)
ExactTotal60(scores, S) ==
  IF S = {} THEN 0
  ELSE LET cat == CHOOSE x \in S : TRUE
       IN  scores[cat] * categories[cat].weight * (60 \div SumMaxPoints(QuestionsIn(cat)))
           + ExactTotal60(scores, S \ {cat})

Abs(n) == IF n < 0 THEN 0 - n ELSE n

\* C18: category_max is the sum of max_points of the category's questions;
\* the reported contribution is raw / category_max * weight at the nearest
\* hundredth; the total is the nearest integer to the sum of the unrounded
\* contributions, held in 0..100.
C18_NormalisedContributions ==
  /\ \A cat \in DOMAIN categories :
        /\ category_max[cat] = SumMaxPoints(QuestionsIn(cat))
        /\ 60 % category_max[cat] = 0
  /\ Returned =>
       LET raw == result.category_scores
           exact60 == ExactTotal60(raw, DOMAIN categories)
       IN  /\ \A cat \in DOMAIN categories :
                2 * Abs(result.category_contributions[cat] * category_max[cat]
                        - raw[cat] * categories[cat].weight * 100)
                  <= category_max[cat]
           /\ IF 2 * exact60 <= 60 THEN result.total_score = 0
              ELSE IF 2 * exact60 >= 199 * 60 THEN result.total_score = 100
              ELSE 2 * Abs(result.total_score * 60 - exact60) <= 60

\* C18 witness: a contribution with a fractional part (3.75) was reported
\* and the total was rounded from it
C18_Witness_FractionalContribution ==
  /\ Returned
  /\ result.category_contributions["visit_engagement"] = 375
  /\ result.total_score = 4

\* C19: only the total is clamped: a category with a negative raw score
\* reports a negative contribution, a category whose raw score exceeds its
\* category_max reports more than its weight, and the total stays in 0..100.
C19_ContributionsNotClamped ==
  Returned =>
    /\ \A cat \in DOMAIN categories :
          /\ result.category_scores[cat] < 0 =>
                result.category_contributions[cat] < 0
          /\ result.category_scores[cat] > category_max[cat] =>
                result.category_contributions[cat] > categories[cat].weight * 100
    /\ result.total_score = Max2(0, Min2(100, UnclampedTotal(result.category_scores)))

\* C19 witness: one result reports a contribution above its weight and a
\* negative contribution
C19_Witness_AboveWeightAndNegative ==
  /\ Returned
  /\ result.category_contributions["spend_12mo"] = 6000
  /\ result.category_contributions["sa_loyalty"] = 0 - 500
  /\ result.total_score = 55

\* the largest value of a points table over the codes in S
RECURSIVE LargestPoint(_, _)
LargestPoint(points, S) ==
  IF S = {} THEN 0
  ELSE LET code == CHOOSE c \in S : TRUE
       IN  Max2(points[code], LargestPoint(points, S \ {code}))

\* the sum of the positive values of a question's points table
SumPositive(q) ==
  sum_positive_points(questions[q].points, DOMAIN questions[q].points)

\* C20 as claimed: max_points of every configured question is the sum of the
\* positive values of its points table.
C20_Claimed_MaxPointsIsSumOfPositives ==
  Returned => \A q \in ConfiguredIds : max_points_of(q) = SumPositive(q)

\* C20: max_points of every configured question is the largest value of its
\* points table, except q_purchase_mix, where it is the sum of the positive
\* values; the two agree for the questions with one positive value.
C20_MaxPointsLargestOrSum ==
  \A q \in ConfiguredIds :
     /\ max_points_of(q) =
          IF q = "q_purchase_mix" THEN SumPositive(q)
          ELSE LargestPoint(questions[q].points, DOMAIN questions[q].points)
     /\ (Returned /\ answers = << Answer(q, << MaxOption(q) >>) >>
           /\ q # "q_purchase_mix") =>
          result.category_scores[questions[q].category] = max_points_of(q)

\* C20 witness: the best spend option alone earned max_points of its
\* question, 30, where the positive values add up to 65
C20_Witness_BestSpendOptionIsMaxPoints ==
  /\ Returned
  /\ answers = << Answer("q_spend_12mo", << "40000_plus" >>) >>
  /\ result.category_scores["spend_12mo"] = 30
  /\ SumPositive("q_spend_12mo") = 65

\* the stored questionnaire documents of a user
DocsOf(user_id) ==
  { questionnaires[i] : i \in { j \in DOMAIN questionnaires :
                                   questionnaires[j].user_id = user_id } }

\* the number of stored questionnaire documents of a user
CountOf(docs, user_id) ==
  Cardinality({ j \in DOMAIN docs : docs[j].user_id = user_id })

\* C15 as claimed: a submission by a user with a stored questionnaire is
\* answered with the id of that questionnaire, the store keeps exactly one
\* questionnaire for the user under the same id, and it holds the answers,
\* score, band and category scores of this submission.
C15_Claimed_ResubmissionUpdatesInPlace ==
  [][ \A u \in UserIdPool : \A a \in SubmitAnswerLists :
        (submit_questionnaire(u, a) /\ DocsOf(u) # {}) =>
           LET r == calculate_score(a)
           IN  /\ response'.status = 201
               /\ \E old \in DocsOf(u) : response'.body.questionnaire_id = old.id
               /\ CountOf(questionnaires', u) = 1
               /\ \E old \in DocsOf(u) :
                    \E i \in DOMAIN questionnaires' :
                       /\ questionnaires'[i].user_id = u
                       /\ questionnaires'[i].id = old.id
                       /\ questionnaires'[i].answers = a
                       /\ questionnaires'[i].score = r.total_score
                       /\ questionnaires'[i].band = r.band
                       /\ questionnaires'[i].category_scores = r.category_contributions
    ]_vars

\* C16: a submission for a user id no user document has is answered 404
\* "User not found"; scoring and persistence do not run and the
\* questionnaire store is unchanged.
C16_UnknownUserRejected ==
  [][ \A u \in UserIdPool : \A a \in SubmitAnswerLists :
        (submit_questionnaire(u, a) /\ \A usr \in users : usr.id # u) =>
           /\ response'.op = "submit_questionnaire"
           /\ response'.status = 404
           /\ response'.body = [detail |-> "User not found"]
           /\ result' = NoResult
           /\ questionnaires' = questionnaires
    ]_vars

\* C16 witness: a submission for an unknown user was answered 404 while the
\* store held another user's questionnaire
C16_Witness_UnknownUserAfterOthersSubmission ==
  /\ response.op = "submit_questionnaire"
  /\ response.status = 404
  /\ \A usr \in users : usr.id # response.user_id
  /\ Len(questionnaires) = 1
  /\ answers # << >>

\* C17: get_questionnaire is answered 404 exactly when no questionnaire is
\* stored for the user id, otherwise 200 with that user's own document; a
\* user's document changes only by that user's own submission, to the
\* answers of that submission, and every saved submission changes it so.
C17_GetReturnsOwnLatestAnswers ==
  /\ [](response.op = "get_questionnaire" =>
          IF DocsOf(response.user_id) = {}
          THEN /\ response.status = 404
               /\ response.body = [detail |-> "Questionnaire not found for this user"]
          ELSE /\ response.status = 200
               /\ response.body \in DocsOf(response.user_id)
               /\ response.body.user_id = response.user_id)
  /\ [][ /\ \A v \in UserIdPool :
              DocsOf(v)' # DocsOf(v) =>
                 \E a \in SubmitAnswerLists :
                    /\ submit_questionnaire(v, a)
                    /\ \A d \in DocsOf(v)' : d.answers = a
         /\ \A u \in UserIdPool : \A a \in SubmitAnswerLists :
              (submit_questionnaire(u, a) /\ \E usr \in users : usr.id = u) =>
                 /\ DocsOf(u)' # {}
                 /\ \A d \in DocsOf(u)' : d.answers = a
       ]_vars

\* C17 witness: with two users' questionnaires stored, the one submitted
\* first was returned to its own user after the other user's submission
C17_Witness_OwnAnswersAfterOthersSubmission ==
  /\ response.op = "get_questionnaire"
  /\ response.status = 200
  /\ Len(questionnaires) = 2
  /\ response.body = questionnaires[1]
  /\ questionnaires[2].answers # questionnaires[1].answers
  /\ response.body.answers # << >>

\* what an invocation returned: the triple
Triple(r) == << r.total_score, r.band, r.category_contributions >>

\* C13: two invocations of calculate_score with the same answer list return
\* the same total, band and contributions, whatever invocations came before
\* them or ran beside them.
C13_Deterministic ==
  \A p \in Callers : \A q \in Callers :
     ( /\ frames[p].pc = "done"
       /\ frames[q].pc = "done"
       /\ frames[p].answers = frames[q].answers ) =>
        /\ frames[p].result.raised = frames[q].result.raised
        /\ Triple(frames[p].result) = Triple(frames[q].result)

\* C13 witness: two callers returned for the same scoring answer list, one
\* in its first invocation, the other after an earlier invocation
C13_Witness_SameListFirstAndLaterCall ==
  /\ frames[1].pc = "done"
  /\ frames[2].pc = "done"
  /\ frames[1].answers = frames[2].answers
  /\ Len(frames[1].answers) = 2
  /\ ~frames[1].earlier
  /\ frames[2].earlier
  /\ frames[1].result.total_score > 0

\* C14: interleaved invocations do not touch each other's accumulators: a
\* dictionary changes only in a step of the invocation it belongs to, and
\* every invocation returns what calculate_score returns for its list alone.
C14_InterleavedCallsIndependent ==
  /\ [](\A p \in Callers :
          frames[p].pc = "done" =>
             frames[p].result = calculate_score(frames[p].answers))
  /\ [][ \A q \in Callers :
            accumulators'[q] # accumulators[q] => frames'[q] # frames[q] ]_vars

\* C14 witness: one caller is between two answers of its list, with points
\* accumulated, while another caller has returned for a different list
C14_Witness_ReturnedBesideRunningCall ==
  /\ frames[1].pc = "loop"
  /\ frames[1].i = 2
  /\ Len(frames[1].answers) = 2
  /\ accumulators[1] # ZeroScores
  /\ frames[2].pc = "done"
  /\ frames[2].answers # frames[1].answers
  /\ frames[2].result.total_score > 0

\* map_option_to_code has returned
Mapped == option.pc = "returned"

\* the keys of the points table of a question
Keys(q) == DOMAIN questions[q].points

\* a label of the legacy table other than the two placeholders
IsLegacyLabel(t) == t \in DOMAIN LEGACY_TEXT_TO_CODE /\ t \notin { "Yes", "No" }

\* the text holds "haven't", or the same with a space for the apostrophe
HasHavent(t) ==
  \/ str_contains(str_lower(t), "haven't")
  \/ str_contains(str_lower(t), "haven t")

\* the trimmed, lowercased text is word and the question has a key ending in _word
IsYesNo(q, t, word) ==
  /\ str_lower(str_strip(t)) = word
  /\ \E k \in Keys(q) : str_endswith(k, "_" \o word)

HasDigit(t) == \E i \in 1..Len(t) : IsDigit(CharAt(t, i))

HasSymbol(t) ==
  \/ str_contains(t, "+") \/ str_contains(t, "<") \/ str_contains(t, "-")
  \/ str_contains(t, "~") \/ str_contains(t, "^")
  \/ str_contains(str_lower(t), "less") \/ str_contains(str_lower(t), " to ")

UsdBands == { "lt_5000", "5000_15000", "15000_40000", "40000_plus" }

\* C21: the first rule that matches decides, in the order exact key, legacy
\* table, "haven't", yes/no, numbers, symbols, text unchanged; so a key with
\* digits in it is returned unchanged and "Haven't visited the boutique yet"
\* gives have_not_visited.
C21_FirstMatchWins ==
  Mapped =>
    LET q == option.question
        t == option.text
        c == option.code
    IN  IF t \in Keys(q) THEN c = t
        ELSE IF IsLegacyLabel(t) THEN c = LEGACY_TEXT_TO_CODE[t]
        ELSE IF HasHavent(t) THEN c = "no_shops"
        ELSE IF IsYesNo(q, t, "yes") THEN c \in Keys(q) /\ str_endswith(c, "_yes")
        ELSE IF IsYesNo(q, t, "no") THEN c \in Keys(q) /\ str_endswith(c, "_no")
        ELSE IF HasDigit(t) THEN c \in UsdBands
        ELSE IF HasSymbol(t) THEN c \in { "40000_plus", "lt_5000", "5000_15000" }
        ELSE c = t

\* C21 witness: the legacy label with "Haven't" was resolved to have_not_visited
C21_Witness_LegacyBeforeHavent ==
  /\ Mapped
  /\ option.question = "q_visit_frequency"
  /\ option.text = "Haven't visited the boutique yet"
  /\ option.code = "have_not_visited"

\* no rule before the numeric one matches the text for the question
ReachesNumericRule(q, t) ==
  /\ t \notin Keys(q)
  /\ ~IsLegacyLabel(t)
  /\ ~HasHavent(t)
  /\ ~IsYesNo(q, t, "yes")
  /\ ~IsYesNo(q, t, "no")

\* the numbers the pattern extracts from the text, in order
Extracted(t) ==
  LET nums == re_findall(t, 1)
  IN  [i \in DOMAIN nums |-> int_of(nums[i], 0)]

\* C22: a text that reaches the numeric rule and has a number extracted is
\* classified by the last extracted number: below 5000 lt_5000, from 5000
\* below 15000 5000_15000, from 15000 below 40000 15000_40000, from 40000
\* 40000_plus.
C22_ThresholdsOnLastNumber ==
  (Mapped /\ ReachesNumericRule(option.question, option.text)
          /\ Len(Extracted(option.text)) > 0) =>
     LET bound == Extracted(option.text)[Len(Extracted(option.text))]
     IN  /\ bound < 5000 => option.code = "lt_5000"
         /\ (bound >= 5000 /\ bound < 15000) => option.code = "5000_15000"
         /\ (bound >= 15000 /\ bound < 40000) => option.code = "15000_40000"
         /\ bound >= 40000 => option.code = "40000_plus"

\* C22 witness: the boundary 15,000 was classified into the upper band
C22_Witness_BoundaryFifteenThousand ==
  /\ Mapped
  /\ option.question = "q_spend_12mo"
  /\ option.text = "15,000"
  /\ option.code = "15000_40000"

\* the number written without commas and the same number with comma groups
Grouped == ("40000" :> "40,000") @@ ("15000" :> "15,000") @@ ("5000" :> "5,000")

\* the value of the number
FullValue == ("40000" :> 40000) @@ ("15000" :> 15000) @@ ("5000" :> 5000)

\* C23 as claimed: a number written without commas is extracted as one
\* integer with its full value, and the text is classified as the text with
\* the same number in comma groups is.
C23_Claimed_CommasOptional ==
  (Mapped /\ option.text \in DOMAIN Grouped) =>
     /\ Extracted(option.text) = << FullValue[option.text] >>
     /\ option.code = map_option_to_code(questions[option.question], Grouped[option.text])

\* the largest number of a non-empty sequence
RECURSIVE LargestOf(_)
LargestOf(seq) ==
  IF Len(seq) = 1 THEN seq[1] ELSE Max2(Head(seq), LargestOf(Tail(seq)))

\* C24 as claimed: a text that reaches the numeric rule is classified by the
\* largest of the numbers extracted from it, whatever their order.
C24_Claimed_BoundIsLargest ==
  (Mapped /\ ReachesNumericRule(option.question, option.text)
          /\ Len(Extracted(option.text)) > 0) =>
     LET bound == LargestOf(Extracted(option.text))
     IN  /\ bound < 5000 => option.code = "lt_5000"
         /\ (bound >= 5000 /\ bound < 15000) => option.code = "5000_15000"
         /\ (bound >= 15000 /\ bound < 40000) => option.code = "15000_40000"
         /\ bound >= 40000 => option.code = "40000_plus"

\* the key the yes/no rule is to return for word ("yes" or "no"): the first
\* of wishlist_, tester_, ask_cancellations_ that is a key, else any key
\* ending in _word
PreferredKeys(q, word) ==
  IF ("wishlist_" \o word) \in Keys(q) THEN { "wishlist_" \o word }
  ELSE IF ("tester_" \o word) \in Keys(q) THEN { "tester_" \o word }
  ELSE IF ("ask_cancellations_" \o word) \in Keys(q) THEN { "ask_cancellations_" \o word }
  ELSE { k \in Keys(q) : str_endswith(k, "_" \o word) }

\* C25: a text that is "yes" (or "no") once trimmed and lowercased resolves
\* to a key of the question ending in _yes (_no), wishlist_, tester_ and
\* ask_cancellations_ keys first; without such a key the rule does not
\* resolve it and the text is returned as it is; the labels "Yes" and "No"
\* are resolved so, never to the placeholders of the legacy table.
C25_YesNoResolution ==
  \A word \in { "yes", "no" } :
     (Mapped /\ str_lower(str_strip(option.text)) = word) =>
        /\ option.code \notin { "YES_PLACEHOLDER", "NO_PLACEHOLDER" }
        /\ IF PreferredKeys(option.question, word) # {}
           THEN option.code \in PreferredKeys(option.question, word)
           ELSE option.code = option.text

\* C25 witness: the legacy label "Yes" was resolved to wishlist_yes
C25_Witness_LegacyYesResolved ==
  /\ Mapped
  /\ option.question = "q_wishlist_active"
  /\ option.text = "Yes"
  /\ option.code = "wishlist_yes"

\* the points the resolved code earns for the question
PointsOf(q, code) == IF code \in Keys(q) THEN questions[q].points[code] ELSE 0

\* C26 as claimed: a text that is neither a key of the question nor a legacy
\* label and holds "haven't", or "havent" without the apostrophe, resolves
\* to no_shops and earns 0 points.
C26_Claimed_HaventResolvesToNoShops ==
  ( /\ Mapped
    /\ option.text \notin Keys(option.question)
    /\ option.text \notin DOMAIN LEGACY_TEXT_TO_CODE
    /\ \/ str_contains(str_lower(option.text), "haven't")
       \/ str_contains(str_lower(option.text), "havent") ) =>
     /\ option.code = "no_shops"
     /\ PointsOf(option.question, option.code) = 0

\* C30: when the exact sum of the contributions is halfway between two
\* integers, the total is the even one of the two (then clamped): 7.5 gives
\* 8 and 12.5 gives 12.
C30_TiesRoundToEven ==
  Returned =>
    LET exact60 == ExactTotal60(result.category_scores, DOMAIN categories)
    IN  /\ (exact60 % 60 = 30 /\ exact60 > 0 /\ exact60 < 100 * 60) =>
             /\ result.total_score % 2 = 0
             /\ Abs(result.total_score * 60 - exact60) = 30
        /\ exact60 = 450 => result.total_score = 8
        /\ exact60 = 750 => result.total_score = 12

\* C30 witness: contributions of 7.5 and 5.0, an exact total of 12.5, gave 12
C30_Witness_TwelveAndAHalf ==
  /\ Returned
  /\ result.category_contributions["visit_engagement"] = 750
  /\ result.category_contributions["sa_loyalty"] = 500
  /\ ExactTotal60(result.category_scores, DOMAIN categories) = 750
  /\ result.total_score = 12

\* C28 as claimed: when a submission is answered 404 or 500, the
\* questionnaire stored for its user is what it was before the request.
C28_Claimed_FailedSubmissionLeavesStore ==
  [][ \A u \in UserIdPool : \A a \in SubmitAnswerLists :
        (submit_questionnaire(u, a) /\ response'.status \in { 404, 500 }) =>
           /\ DocsOf(u)' = DocsOf(u)
           /\ questionnaires' = questionnaires
    ]_vars

\* C27 as claimed: whatever the interleaving of the submissions, the store
\* holds at most one questionnaire for a user, and every request answered
\* 201 carries the id of that questionnaire.
C27_Claimed_OneQuestionnairePerUser ==
  /\ \A u \in UserIdPool : CountOf(questionnaires, u) <= 1
  /\ \A r \in Requests :
        (requests[r].pc = "done" /\ requests[r].response.status = 201) =>
           \A d \in DocsOf(requests[r].user_id) :
              d.id = requests[r].response.body.questionnaire_id

\* C29 as claimed: whatever registrations and profile updates have run, one
\* after the other or interleaved, no two users have the same username.
C29_Claimed_UsernamesUnique ==
  \A u \in users : \A v \in users : u.id # v.id => u.username # v.username

====
